---- MODULE Spec2Model ----
(***************************************************************************)
(* A model of CPPSocket (src/cppSocket.h, src/cppSocket.cpp) in its TCP    *)
(* server mode: the endpoint's fields, the listener thread                  *)
(* (ListenThreadEntry / HandleClient) and the operations a caller thread    *)
(* invokes on the endpoint.                                                 *)
(*                                                                         *)
(* The operating system hands out the lowest unused descriptor (POSIX).    *)
(* The descriptors it hands out in the model are 1..MaxId; descriptor 0,    *)
(* the value sock has before Create, belongs to the process (standard       *)
(* input) and is no socket.                                                 *)
(***************************************************************************)
EXTENDS Integers, Sequences, FiniteSets, TLC

\* ------------------------------------------------------------------ bounds
\* The operating system hands out the descriptors 1..MaxId.
MaxId == 3
\* Capacity of a receive buffer in the model (the code's is maxMessageSize).
MaxMessageSize == 2
\* Longest pending-receipt queue the environment is allowed to build up.
MaxQueue == 2
\* Largest requested size of a send.
MaxBufferSize == 1
\* Largest value the environment drives a failed-send counter to.
MaxFail == 2
\* Most local addresses the system enumerates.
MaxLocal == 2

\* --------------------------------------------------------- program constants
INVALID_SOCKET == -1
SOCKET_ERROR == -1
\* unsigned short holds 0 .. USHRT_MAX
USHRT_MAX == 65535

Ids == 1..MaxId

\* The values a SocketID takes in the model: 0 and the descriptors.
SocketIDs == 0..MaxId

VARIABLES
    type,               \* const SocketType type
    sock,               \* SocketID sock
    continueListening,  \* volatile bool continueListening
    listenerThread,     \* std::thread listenerThread and its position
    s,                  \* ListenThreadEntry's loop variable s
    readSocks,          \* fd_set readSocks
    clients,            \* fd_set clients
    maxSock,            \* SocketID maxSock
    bufferMutex,        \* std::mutex bufferMutex: "free" or its holder
    clientBuffers,      \* ClientBufferMap clientBuffers
    clientRcvQueue,     \* std::queue<SocketID> clientRcvQueue
    failedSendCount,    \* std::map<SocketID, unsigned short> failedSendCount
    open,               \* operating system: the open descriptors and their kind
    caller,             \* position of the calling thread
    ev,                 \* the last operation performed and what it returned
    arrived,            \* history: the peers of the messages received and not
                        \* yet consumed, oldest first
    failStreak,         \* history: failed sends per peer since its last full send
    list,               \* AccessManager: std::vector<String> list
    listMutex,          \* AccessManager: std::shared_mutex listMutex, its holders
    accessFinishedCondition,
                        \* AccessManager: the threads blocked on the
                        \* std::condition_variable_any accessFinishedCondition
    threads,            \* the threads using the AccessManager: the call each is
                        \* in, its position there, its key and return value
    amCalls,            \* calls started and spurious wake-ups so far
    granted,            \* history: per key, the threads whose TryAccess
                        \* returned true since the last Notify of the key
    amEv                \* the last AccessManager step and what it returned

accessVars == <<list, listMutex, accessFinishedCondition, threads, amCalls, granted, amEv>>
endpointVars == <<type, accessVars, sock, continueListening>>
loopVars == <<listenerThread, s, readSocks>>
setVars == <<clients, maxSock>>
dataVars == <<clientBuffers, clientRcvQueue, failedSendCount>>
histVars == <<arrived, failStreak>>
socketVars == <<type, sock, continueListening, loopVars, setVars, dataVars, bufferMutex, open,
                caller, ev, histVars>>
vars == <<endpointVars, loopVars, setVars, dataVars, bufferMutex, open, caller, ev, histVars>>

\* ------------------------------------------------------------------ helpers
Min(S) == CHOOSE x \in S : \A y \in S : x <= y

Range(q) == {q[i] : i \in 1..Len(q)}

\* std::map::erase(key)
MapErase(m, k) == [x \in DOMAIN m \ {k} |-> m[x]]

\* std::map::operator[] followed by an assignment of the mapped value
MapPut(m, k, v) == [x \in DOMAIN m \cup {k} |-> IF x = k THEN v ELSE m[x]]

\* socket() and accept() return the lowest descriptor the process has not open
LowestFree == Min(Ids \ DOMAIN open)

\* The record of one operation: who ran it, whether that thread held
\* bufferMutex, the identity and size it was about, its result, the
\* operating-system sends it made (<<descriptor, bytes written>>, in order)
\* and the bytes it handed out.
\* For Create, Bind and GetBestLocalIPAddress it also holds the target
\* asked for, the local addresses the system enumerated, the address chosen
\* and the calls made with their results (<<name, succeeded>>, in order, the
\* construction of the listener thread among them); <<>> for other
\* operations.
Event(op, thread, locked, id, n, ok, sent, data) ==
    [op |-> op, thread |-> thread, locked |-> locked, id |-> id, n |-> n,
     ok |-> ok, sent |-> sent, data |-> data,
     target |-> <<>>, ips |-> <<>>, address |-> <<>>, calls |-> <<>>]

\* An operation of the calling thread
CallerEvent(op, id, n, ok, sent, data) ==
    Event(op, "caller", bufferMutex = "caller", id, n, ok, sent, data)

\* An operation of the listener thread
ListenerEvent(op, locked, id, n, ok) ==
    Event(op, "listener", locked, id, n, ok, <<>>, <<>>)

EmptyMap == [x \in {} |-> 0]

\* ------------------------------------------------------------ socket types
\* enum SocketType
SocketTypes ==
    {"SocketTCPServer", "SocketTCPClient", "SocketUDPServer", "SocketUDPClient",
     "SocketICMP"}

IsICMP == type = "SocketICMP"
IsTCP == type = "SocketTCPServer" \/ type = "SocketTCPClient"
IsServer == type = "SocketTCPServer" \/ type = "SocketUDPServer"

\* ---------------------------------------------------------------- addresses
\* A std::string is the sequence of its characters.
\* a.b.c.d
Quad(a, b, c, d) == a \o <<".">> \o b \o <<".">> \o c \o <<".">> \o d

\* The dotted quads of the model: 10.0.c.d, the third component 1, 12 or 2.
Addresses ==
    {Quad(<<"1", "0">>, <<"0">>, c, d) :
        c \in {<<"1">>, <<"1", "2">>, <<"2">>}, d \in {<<"5">>, <<"7">>}}

\* The target and the local address Create is called with in the model.
LocalAddress == Quad(<<"1", "0">>, <<"0">>, <<"1">>, <<"5">>)
Targets == {<<>>, Quad(<<"1", "0">>, <<"0">>, <<"1">>, <<"7">>)}

\* What GetLocalIPAddress can return: up to MaxLocal addresses, in order.
LocalLists == UNION {[1..k -> Addresses] : k \in 0..MaxLocal}

\* str.substr(0, count): the first count characters, the whole of a shorter str
Substr(str, count) == SubSeq(str, 1, IF count < Len(str) THEN count ELSE Len(str))

\* str.substr(0, str.find_last_of(ch)): what precedes the last ch; the whole
\* string when it holds no ch (find_last_of returns npos).
UpToLast(str, ch) ==
    LET at == {i \in 1..Len(str) : str[i] = ch}
    IN  IF at = {} THEN str
        ELSE SubSeq(str, 1, (CHOOSE i \in at : \A j \in at : j <= i) - 1)

\* GetBestLocalIPAddress(destination), ips what GetLocalIPAddress returned:
\* the first address whose first compareString.size() characters are
\* compareString.
GetBestLocalIPAddress(destination, ips) ==
    IF destination = <<>> THEN <<>>
    ELSE LET compareString == UpToLast(destination, ".")
             matching == {i \in 1..Len(ips) :
                            Substr(ips[i], Len(compareString)) = compareString}
         IN  IF matching = {} THEN <<>> ELSE ips[Min(matching)]

\* ------------------------------------------------------- operating system
\* The descriptors that are accepted TCP connections.
Connected == {x \in DOMAIN open : open[x] = "connection"}

\* What send(x, buffer, n, 0) can return: an error, or the number of bytes
\* written, when x is a connected socket; an error on any other descriptor
\* (a listening socket is not connected, descriptor 0 is no socket).
OsSend(x, n) == IF x \in Connected THEN (-1)..n ELSE {SOCKET_ERROR}

\* The connections whose peer has closed its end.
PeerClosed == {x \in DOMAIN open : open[x] = "closed by peer"}

\* What recv(x, buffer, maxMessageSize, 0) can return: an error, 0 (the peer
\* closed), or a message length, when x is a connected socket; an error or 0
\* once the peer has closed; an error on a descriptor that is closed or is no
\* connection.
OsRecv(x) ==
    IF x \in Connected THEN (-1)..MaxMessageSize
    ELSE IF x \in PeerClosed THEN {SOCKET_ERROR, 0}
    ELSE {SOCKET_ERROR}

\* The outcome the operating system gives the send to x, from the outcomes
\* res chosen for the connected sockets.
SendOutcome(res, x) == IF x \in DOMAIN res THEN res[x] ELSE SOCKET_ERROR

\* -------------------------------------------------------------- buffers
\* A fresh BufferInfo as DoReceive sets it up: buffer.resize(maxMessageSize).
NewBufferInfo == [messageSize |-> 0, buffer |-> [i \in 1..MaxMessageSize |-> 0]]

\* A BufferInfo as std::map::operator[] creates it: an empty vector.
DefaultBufferInfo == [messageSize |-> 0, buffer |-> <<>>]

\* A recv that writes one byte less than it reports.
OverwriteShort(buffer, n) ==
    [i \in DOMAIN buffer |-> IF i < n THEN n ELSE buffer[i]]

\* recv writes the n bytes of a message at the start of the buffer and leaves
\* the rest; a message of n bytes is n bytes of value n.
Overwrite(buffer, n) ==
    [i \in DOMAIN buffer |-> IF i <= n THEN n ELSE buffer[i]]

\* DoReceive on a TCP server: the peer's buffer is looked up, created when
\* missing, and recv (returning n) writes into it.
DoReceive(id, n) ==
    LET found == IF id \in DOMAIN clientBuffers
                 THEN clientBuffers[id] ELSE NewBufferInfo
    IN  MapPut(clientBuffers, id,
               [found EXCEPT !.buffer = IF n > 0 THEN Overwrite(@, n) ELSE @])

\* clientBuffers[id] as a caller-side operation evaluates it
BuffersWith(id) ==
    IF id \in DOMAIN clientBuffers THEN clientBuffers
    ELSE MapPut(clientBuffers, id, DefaultBufferInfo)

\* ------------------------------------------------------------- queries
IsPeer(x) == x \in clients /\ x # sock

Peers == {x \in Ids : IsPeer(x)}

ClientIsConnected(sockId) == sockId \in clients

GetFailedSendCount(sockId) ==
    IF sockId \in DOMAIN failedSendCount THEN failedSendCount[sockId] ELSE 0

\* A count that does not leave out the listening socket.
GetClientCountWithSock ==
    Cardinality({x \in 0..maxSock : ~(x \notin clients)})

\* GetClientCount(): the descriptors 0..maxSock set in clients, sock left out
GetClientCount ==
    Cardinality({x \in 0..maxSock : ~(x \notin clients \/ x = sock)})

\* failedSendCount[x]++ on an unsigned short
Increment(count) == (count + 1) % (USHRT_MAX + 1)

\* A test of a send's result that lets a short write pass.
SendFailedOnError(bytesSent, n) == bytesSent = SOCKET_ERROR

\* The bookkeeping of one send of n bytes to x that returned bytesSent.
SendFailed(bytesSent, n) == bytesSent = SOCKET_ERROR \/ bytesSent # n

CountSend(counts, x, bytesSent, n) ==
    IF SendFailed(bytesSent, n)
    THEN MapPut(counts, x,
                Increment(IF x \in DOMAIN counts THEN counts[x] ELSE 0))
    ELSE MapPut(counts, x, 0)

\* ---------------------------------------------------------------- Init
\* ------------------------------------------------------------ AccessManager
\* Threads that use one AccessManager, and the keys they ask for.
MaxThreads == 3
MaxKeys == 2
\* Calls of TryAccess and WaitOn the threads start in all, and spurious
\* wake-ups of the condition variable.
MaxCalls == 4
MaxSpurious == 1

Threads == 1..MaxThreads
Keys == 1..MaxKeys

\* A thread outside the AccessManager, holding no AccessHelper.
IdleThread ==
    [op |-> "none", pc |-> "idle", key |-> 0, ret |-> FALSE, checked |-> "none",
     helper |-> 0]

\* What a step of the AccessManager did.
Access(op, t, key, ret, checked) ==
    [op |-> op, thread |-> t, key |-> key, ret |-> ret, checked |-> checked]

\* A default-constructed AccessManager: empty list, free mutex, nobody waiting.
InitAccess ==
    /\ list = <<>>
    /\ listMutex = [exclusive |-> 0, shared |-> {}]
    /\ accessFinishedCondition = {}
    /\ threads = [t \in Threads |-> IdleThread]
    /\ amCalls = [started |-> 0, spurious |-> 0]
    /\ granted = [k \in Keys |-> {}]
    /\ amEv = Access("construct", 0, 0, FALSE, "none")

\* std::find(list.begin(), list.end(), key) == list.end()
Absent(key) == \A i \in 1..Len(list) : list[i] # key

\* list.erase(std::find(list.begin(), list.end(), key)) for a key in the list.
Erased(key) ==
    LET i == CHOOSE j \in 1..Len(list) :
                 list[j] = key /\ \A h \in 1..(j - 1) : list[h] # key
    IN  SubSeq(list, 1, i - 1) \o SubSeq(list, i + 1, Len(list))

At(t, op, pc) == threads[t].op = op /\ threads[t].pc = pc

Move(t, pc) == threads' = [threads EXCEPT ![t].pc = pc]

\* A thread calls TryAccess(key); it holds no AccessHelper.
TryAccess(t, key) ==
    /\ threads[t].pc = "idle" /\ threads[t].helper = 0
    /\ amCalls.started < MaxCalls
    /\ threads' = [threads EXCEPT ![t] =
                       [IdleThread EXCEPT !.op = "TryAccess", !.pc = "lock_shared",
                                          !.key = key]]
    /\ amCalls' = [amCalls EXCEPT !.started = @ + 1]
    /\ amEv' = Access("call TryAccess", t, key, FALSE, "none")
    /\ UNCHANGED <<list, listMutex, accessFinishedCondition, granted, socketVars>>

\* std::shared_lock<std::shared_mutex> lock(listMutex), and sharedLock.lock()
\* in ~AccessUpgrader: granted while no thread holds the mutex exclusively.
LockShared(t) ==
    /\ threads[t].op = "TryAccess" /\ threads[t].pc \in {"lock_shared", "relock"}
    /\ listMutex.exclusive = 0
    /\ listMutex' = [listMutex EXCEPT !.shared = @ \cup {t}]
    /\ Move(t, IF threads[t].pc = "lock_shared" THEN "find" ELSE "return")
    /\ amEv' = Access("lock_shared", t, threads[t].key, threads[t].ret,
                     threads[t].checked)
    /\ UNCHANGED <<list, accessFinishedCondition, amCalls, granted, socketVars>>

\* The first find, under the shared lock: the key is there and TryAccess
\* returns false, or the lock is to be upgraded.
Find(t) ==
    /\ At(t, "TryAccess", "find")
    /\ Move(t, IF Absent(threads[t].key) THEN "upgrade" ELSE "return")
    /\ amEv' = Access("find", t, threads[t].key, FALSE, "none")
    /\ UNCHANGED <<list, listMutex, accessFinishedCondition, amCalls, granted,
                   socketVars>>

\* AccessUpgrader's constructor, first statement: sharedLock.unlock().
UpgraderUnlockShared(t) ==
    /\ At(t, "TryAccess", "upgrade")
    /\ listMutex' = [listMutex EXCEPT !.shared = @ \ {t}]
    /\ Move(t, "lock")
    /\ amEv' = Access("unlock_shared", t, threads[t].key, FALSE, "none")
    /\ UNCHANGED <<list, accessFinishedCondition, amCalls, granted, socketVars>>

\* An exclusive lock of listMutex: sharedLock.mutex()->lock() in
\* AccessUpgrader's constructor, the unique_lock of WaitOn (also when wait()
\* locks again after a wake-up) and the lock_guard of Notify.  Granted while no
\* thread holds the mutex in either way.
Lock(t) ==
    /\ threads[t].pc = "lock"
    /\ listMutex.exclusive = 0 /\ listMutex.shared = {}
    /\ listMutex' = [listMutex EXCEPT !.exclusive = t]
    /\ Move(t, CASE threads[t].op = "TryAccess" -> "recheck"
                 [] threads[t].op = "WaitOn" -> "wait"
                 [] OTHER -> "erase")
    /\ amEv' = Access("lock", t, threads[t].key, threads[t].ret, threads[t].checked)
    /\ UNCHANGED <<list, accessFinishedCondition, amCalls, granted, socketVars>>

\* A second find that is left out: the key is added whatever the list holds.
RecheckSkipped(t) ==
    /\ At(t, "TryAccess", "recheck")
    /\ list' = Append(list, threads[t].key)
    /\ threads' = [threads EXCEPT ![t].pc = "unlock", ![t].ret = TRUE,
                                  ![t].checked =
                                      IF Absent(threads[t].key) THEN "absent"
                                      ELSE "present"]
    /\ amEv' = Access("recheck", t, threads[t].key, TRUE, threads'[t].checked)
    /\ UNCHANGED <<listMutex, accessFinishedCondition, amCalls, granted, socketVars>>

\* The second find, under the exclusive lock: the key is appended and the
\* return value is true if it is still absent.
Recheck(t) ==
    /\ At(t, "TryAccess", "recheck")
    /\ list' = IF Absent(threads[t].key) THEN Append(list, threads[t].key) ELSE list
    /\ threads' = [threads EXCEPT ![t].pc = "unlock",
                                  ![t].ret = Absent(threads[t].key),
                                  ![t].checked =
                                      IF Absent(threads[t].key) THEN "absent"
                                      ELSE "present"]
    /\ amEv' = Access("recheck", t, threads[t].key, threads'[t].ret,
                     threads'[t].checked)
    /\ UNCHANGED <<listMutex, accessFinishedCondition, amCalls, granted, socketVars>>

\* ~AccessUpgrader, first statement: sharedLock.mutex()->unlock().
UpgraderUnlock(t) ==
    /\ At(t, "TryAccess", "unlock")
    /\ listMutex' = [listMutex EXCEPT !.exclusive = 0]
    /\ Move(t, "relock")
    /\ amEv' = Access("unlock", t, threads[t].key, threads[t].ret, threads[t].checked)
    /\ UNCHANGED <<list, accessFinishedCondition, amCalls, granted, socketVars>>

\* TryAccess returns: the shared_lock is unlocked; a thread that got true
\* constructs an AccessHelper for the key.
TryAccessReturn(t) ==
    /\ At(t, "TryAccess", "return")
    /\ listMutex' = [listMutex EXCEPT !.shared = @ \ {t}]
    /\ threads' = [threads EXCEPT ![t] =
                       [IdleThread EXCEPT !.helper =
                            IF threads[t].ret THEN threads[t].key ELSE 0]]
    /\ granted' = IF threads[t].ret
                  THEN [granted EXCEPT ![threads[t].key] = @ \cup {t}]
                  ELSE granted
    /\ amEv' = Access("TryAccess", t, threads[t].key, threads[t].ret,
                     threads[t].checked)
    /\ UNCHANGED <<list, accessFinishedCondition, amCalls, socketVars>>

\* A thread that holds no AccessHelper calls WaitOn(key).
WaitOn(t, key) ==
    /\ threads[t].pc = "idle" /\ threads[t].helper = 0
    /\ amCalls.started < MaxCalls
    /\ threads' = [threads EXCEPT ![t] =
                       [IdleThread EXCEPT !.op = "WaitOn", !.pc = "lock", !.key = key]]
    /\ amCalls' = [amCalls EXCEPT !.started = @ + 1]
    /\ amEv' = Access("call WaitOn", t, key, FALSE, "none")
    /\ UNCHANGED <<list, listMutex, accessFinishedCondition, granted, socketVars>>

\* accessFinishedCondition.wait(lock, pred), holding the mutex: if the key is
\* absent the wait is over; otherwise the mutex is released and the thread
\* blocks on the condition variable, in one atomic step.
Wait(t) ==
    /\ At(t, "WaitOn", "wait")
    /\ IF Absent(threads[t].key)
       THEN /\ Move(t, "return")
            /\ UNCHANGED <<listMutex, accessFinishedCondition>>
       ELSE /\ listMutex' = [listMutex EXCEPT !.exclusive = 0]
            /\ accessFinishedCondition' = accessFinishedCondition \cup {t}
            /\ Move(t, "blocked")
    /\ amEv' = Access("wait", t, threads[t].key, FALSE, threads[t].checked)
    /\ UNCHANGED <<list, amCalls, granted, socketVars>>

\* The threads of W leave the condition variable and go to lock the mutex again.
Woken(W) ==
    [t \in Threads |->
        IF t \in W THEN [threads[t] EXCEPT !.pc = "lock", !.checked = "woken"]
        ELSE threads[t]]

\* A wake-up without a notification, which wait() allows.
SpuriousWake(t) ==
    /\ t \in accessFinishedCondition
    /\ amCalls.spurious < MaxSpurious
    /\ accessFinishedCondition' = accessFinishedCondition \ {t}
    /\ threads' = Woken({t})
    /\ amCalls' = [amCalls EXCEPT !.spurious = @ + 1]
    /\ amEv' = Access("spurious", t, threads[t].key, FALSE, "woken")
    /\ UNCHANGED <<list, listMutex, granted, socketVars>>

\* WaitOn returns: the unique_lock is unlocked.
WaitOnReturn(t) ==
    /\ At(t, "WaitOn", "return")
    /\ listMutex' = [listMutex EXCEPT !.exclusive = 0]
    /\ threads' = [threads EXCEPT ![t] = IdleThread]
    /\ amEv' = Access("WaitOn", t, threads[t].key, FALSE, threads[t].checked)
    /\ UNCHANGED <<list, accessFinishedCondition, amCalls, granted, socketVars>>

\* ~AccessHelper: the thread that holds the helper calls Notify(key).
Notify(t) ==
    /\ threads[t].pc = "idle" /\ threads[t].helper # 0
    /\ threads' = [threads EXCEPT ![t].op = "Notify", ![t].pc = "lock",
                                  ![t].key = threads[t].helper]
    /\ amEv' = Access("call Notify", t, threads[t].helper, FALSE, "none")
    /\ UNCHANGED <<list, listMutex, accessFinishedCondition, amCalls, granted,
                   socketVars>>

\* An erase that notifies nobody.
EraseSilently(t) ==
    /\ At(t, "Notify", "erase")
    /\ list' = Erased(threads[t].key)
    /\ Move(t, "return")
    /\ granted' = [granted EXCEPT ![threads[t].key] = {}]
    /\ amEv' = Access("erase", t, threads[t].key, FALSE, "none")
    /\ UNCHANGED <<listMutex, accessFinishedCondition, amCalls, socketVars>>

\* Notify under the exclusive lock: the key is erased and notify_all() wakes
\* every thread blocked on the condition variable.
Erase(t) ==
    /\ At(t, "Notify", "erase")
    /\ list' = Erased(threads[t].key)
    /\ accessFinishedCondition' = {}
    /\ threads' = [Woken(accessFinishedCondition) EXCEPT ![t].pc = "return"]
    /\ granted' = [granted EXCEPT ![threads[t].key] = {}]
    /\ amEv' = Access("erase", t, threads[t].key, FALSE, "none")
    /\ UNCHANGED <<listMutex, amCalls, socketVars>>

\* Notify returns: the lock_guard is unlocked and the helper is gone.
NotifyReturn(t) ==
    /\ At(t, "Notify", "return")
    /\ listMutex' = [listMutex EXCEPT !.exclusive = 0]
    /\ threads' = [threads EXCEPT ![t] = IdleThread]
    /\ amEv' = Access("Notify", t, threads[t].key, FALSE, "none")
    /\ UNCHANGED <<list, accessFinishedCondition, amCalls, granted, socketVars>>

\* The endpoint after CPPSocket(SocketTCPServer): sock = 0, maxSock = 0,
\* continueListening = false, both descriptor sets zeroed, no thread.
Init ==
    /\ type = "SocketTCPServer"
    /\ sock = 0
    /\ continueListening = FALSE
    /\ listenerThread = "none"
    /\ s = 0
    /\ readSocks = {}
    /\ clients = {}
    /\ maxSock = 0
    /\ bufferMutex = "free"
    /\ clientBuffers = EmptyMap
    /\ clientRcvQueue = <<>>
    /\ failedSendCount = EmptyMap
    /\ open = EmptyMap
    /\ caller = "idle"
    /\ ev = Event("construct", "caller", FALSE, INVALID_SOCKET, 0, TRUE, <<>>, <<>>)
    /\ arrived = <<>>
    /\ failStreak = [x \in SocketIDs |-> 0]
    /\ InitAccess

\* The endpoint after CPPSocket(type), of any type.
InitAny ==
    /\ type \in SocketTypes
    /\ sock = 0
    /\ continueListening = FALSE
    /\ listenerThread = "none"
    /\ s = 0
    /\ readSocks = {}
    /\ clients = {}
    /\ maxSock = 0
    /\ bufferMutex = "free"
    /\ clientBuffers = EmptyMap
    /\ clientRcvQueue = <<>>
    /\ failedSendCount = EmptyMap
    /\ open = EmptyMap
    /\ caller = "idle"
    /\ ev = Event("construct", "caller", FALSE, INVALID_SOCKET, 0, TRUE, <<>>, <<>>)
    /\ arrived = <<>>
    /\ failStreak = [x \in SocketIDs |-> 0]
    /\ InitAccess

\* ------------------------------------------------------ endpoint lifecycle
\* Kinds of open descriptor: "socket" (created), "bound", "connected" (by
\* connect), "listening", and "connection" (returned by accept).

\* What a call leaves behind: the calls it made with their results, its return
\* value, the kind sock has become ("unchanged" when no call changed it),
\* whether continueListening was raised and whether a listener thread was
\* constructed.
Outcome(calls, ret, kind, flag, spawn) ==
    [calls |-> calls, ret |-> ret, kind |-> kind, flag |-> flag, spawn |-> spawn]

\* A Listen that constructs the thread whatever listen() returned.
ListenAlwaysSpawns(listenOk) ==
    IF ~listenOk
    THEN Outcome(<<<<"listen", FALSE>>, <<"thread", TRUE>>>>, FALSE, "bound",
                 TRUE, TRUE)
    ELSE Outcome(<<<<"listen", TRUE>>, <<"thread", TRUE>>>>, TRUE, "listening",
                 TRUE, TRUE)

\* Listen(): the flag is raised first; the thread is constructed only after
\* listen() succeeded.
Listen(listenOk) ==
    IF ~listenOk
    THEN Outcome(<<<<"listen", FALSE>>>>, FALSE, "bound", TRUE, FALSE)
    ELSE Outcome(<<<<"listen", TRUE>>, <<"thread", TRUE>>>>, TRUE, "listening",
                 TRUE, TRUE)

\* Bind(address): bind(), and on a TCP server Listen() after it.  (The
\* setsockopt of EnableAddressReusue changes nothing the model holds.)
Bind(bindOk, listenOk) ==
    IF ~bindOk
    THEN Outcome(<<<<"bind", FALSE>>>>, FALSE, "unchanged", FALSE, FALSE)
    ELSE IF type = "SocketTCPServer"
         THEN LET l == Listen(listenOk)
              IN  Outcome(<<<<"bind", TRUE>>>> \o l.calls, l.ret, l.kind, l.flag,
                          l.spawn)
         ELSE Outcome(<<<<"bind", TRUE>>>>, TRUE, "bound", FALSE, FALSE)

\* Connect(address)
Connect(connectOk) ==
    IF ~connectOk
    THEN Outcome(<<<<"connect", FALSE>>>>, FALSE, "unchanged", FALSE, FALSE)
    ELSE Outcome(<<<<"connect", TRUE>>>>, TRUE, "connected", FALSE, FALSE)

\* Create after socket() returned a descriptor: done on ICMP, Connect on a
\* TCP client, Bind on TCP servers and any UDP socket.
CreateRest(connectOk, bindOk, listenOk) ==
    LET r == IF type = "SocketICMP"
             THEN Outcome(<<>>, TRUE, "unchanged", FALSE, FALSE)
             ELSE IF type = "SocketTCPClient"
                  THEN Connect(connectOk)
                  ELSE Bind(bindOk, listenOk)
    IN  Outcome(<<<<"socket", TRUE>>>> \o r.calls, r.ret, r.kind, r.flag, r.spawn)

\* The address a call hands to bind or connect: AssembleAddress(port, target)
\* is the wildcard address for an empty target, else the target itself.
AssembleAddress(target) == IF target = <<>> THEN <<"*">> ELSE target

\* The effect of outcome r of operation op on the descriptor d, o the open
\* descriptors before it.  Assigning a new thread to listenerThread while it
\* is joinable calls std::terminate: the process is gone and the call never
\* returns.
Conclude(op, d, o, r, target, ips, address) ==
    /\ open' = IF r.kind = "unchanged" THEN o ELSE MapPut(o, d, r.kind)
    /\ continueListening' = (continueListening \/ r.flag)
    /\ IF r.spawn /\ listenerThread # "none"
       THEN /\ caller' = "aborted"
            /\ ev' = [CallerEvent("terminate", d, 0, FALSE, <<>>, <<>>)
                         EXCEPT !.target = target, !.ips = ips,
                                !.address = address, !.calls = r.calls]
            /\ UNCHANGED listenerThread
       ELSE /\ listenerThread' = IF r.spawn THEN "entry" ELSE listenerThread
            /\ ev' = [CallerEvent(op, d, 0, r.ret, <<>>, <<>>)
                         EXCEPT !.target = target, !.ips = ips,
                                !.address = address, !.calls = r.calls]
            /\ UNCHANGED caller
    /\ UNCHANGED <<type, accessVars, s, readSocks, setVars, dataVars, bufferMutex, histVars>>

\* Create(port, target) with the given results of socket(), connect(), bind()
\* and listen(), ips what GetLocalIPAddress returns.
CreateWith(socketOk, connectOk, bindOk, listenOk, target, ips) ==
    /\ caller = "idle"
    /\ IF ~socketOk
       THEN /\ sock' = INVALID_SOCKET
            /\ ev' = [CallerEvent("Create", INVALID_SOCKET, 0, FALSE, <<>>, <<>>)
                         EXCEPT !.target = target, !.ips = ips,
                                !.calls = <<<<"socket", FALSE>>>>]
            /\ UNCHANGED <<type, accessVars, continueListening, loopVars, setVars, dataVars,
                           bufferMutex, open, caller, histVars>>
       ELSE /\ Ids \ DOMAIN open # {}
            /\ sock' = LowestFree
            /\ Conclude("Create", LowestFree, MapPut(open, LowestFree, "socket"),
                        CreateRest(connectOk, bindOk, listenOk), target, ips,
                        IF type = "SocketICMP" THEN <<>>
                        ELSE IF type = "SocketTCPClient"
                             THEN AssembleAddress(target)
                             ELSE AssembleAddress(GetBestLocalIPAddress(target, ips)))

\* Create on a TCP server whose socket, bind and listen calls succeed:
\* Create -> Bind -> Listen, which starts the listener thread.
Create ==
    /\ type = "SocketTCPServer"
    /\ listenerThread = "none"
    /\ CreateWith(TRUE, TRUE, TRUE, TRUE, <<>>, <<>>)

\* Create in any state the caller can call it in, with any results of the
\* operating system.
CreateAny ==
    \E socketOk, connectOk, bindOk, listenOk \in BOOLEAN :
        \E target \in Targets, ips \in {<<>>, <<LocalAddress>>} :
            CreateWith(socketOk, connectOk, bindOk, listenOk, target, ips)

\* Bind(address) called by the user: bind() can succeed on a socket that is
\* created and not yet bound.
BindAny ==
    \E bindOk, listenOk \in BOOLEAN, target \in Targets :
        /\ caller = "idle"
        /\ bindOk => sock \in DOMAIN open /\ open[sock] = "socket"
        /\ Conclude("Bind", sock, open, Bind(bindOk, listenOk), target, <<>>,
                    AssembleAddress(target))
        /\ UNCHANGED sock

\* shutdown(sock) and close(sock) act on a socket of the endpoint: sock is the
\* descriptor of its open listening socket.
OwnsSock == sock \in DOMAIN open /\ open[sock] # "connection"

\* A Destroy that leaves the failed-send counters and the queue in place.
DestroyRestKeeps ==
    /\ clients' = {}
    /\ readSocks' = {}
    /\ open' = MapErase(open, sock)
    /\ caller' = "idle"
    /\ ev' = CallerEvent("Destroy", sock, 0, OwnsSock, <<>>, <<>>)
    /\ UNCHANGED <<type, accessVars, sock, s, maxSock, bufferMutex, dataVars, histVars>>

\* Destroy after the join: both sets zeroed, the maps and the queue cleared,
\* then shutdown(sock) and close(sock), whatever sock holds.
DestroyRest ==
    /\ clients' = {}
    /\ readSocks' = {}
    /\ failedSendCount' = EmptyMap
    /\ clientBuffers' = EmptyMap
    /\ clientRcvQueue' = <<>>
    /\ open' = MapErase(open, sock)
    /\ arrived' = <<>>
    /\ failStreak' = [x \in SocketIDs |-> 0]
    /\ caller' = "idle"
    /\ ev' = CallerEvent("Destroy", sock, 0, OwnsSock, <<>>, <<>>)
    /\ UNCHANGED <<type, accessVars, sock, s, maxSock, bufferMutex>>

\* A Destroy that does not join the listener thread.
DestroyWithoutJoin ==
    /\ caller = "idle"
    /\ continueListening' = FALSE
    /\ DestroyRest
    /\ UNCHANGED listenerThread

\* Destroy up to the join: the stop flag is lowered; with a joinable listener
\* thread the caller waits for it, otherwise Destroy runs to its end.
Destroy ==
    /\ caller = "idle"
    /\ continueListening' = FALSE
    /\ IF type = "SocketTCPServer" /\ listenerThread # "none"
       THEN /\ caller' = "join"
            /\ ev' = CallerEvent("DestroyWait", sock, 0, TRUE, <<>>, <<>>)
            /\ UNCHANGED <<type, accessVars, sock, loopVars, setVars, dataVars, bufferMutex,
                           open, histVars>>
       ELSE /\ DestroyRest
            /\ UNCHANGED listenerThread

\* listenerThread.join() returns once the thread function has returned.
DestroyJoin ==
    /\ caller = "join"
    /\ listenerThread = "done"
    /\ listenerThread' = "none"
    /\ DestroyRest
    /\ UNCHANGED continueListening

\* --------------------------------------------------------- listener thread
\* The listener thread is at "entry" (started), "top" (at the while test),
\* "select" (in select, readSocks copied from clients), "for" (in the for
\* loop, s the next descriptor to look at) or "done" (returned).  s is dead
\* outside the for loop; the model keeps it 0 there.

\* ListenThreadEntry before its loop: clients holds the listening socket only.
ListenThreadEntry ==
    /\ listenerThread = "entry"
    /\ clients' = {sock}
    /\ maxSock' = sock
    /\ listenerThread' = "top"
    /\ ev' = ListenerEvent("ListenThreadEntry", FALSE, sock, 0, TRUE)
    /\ UNCHANGED <<endpointVars, s, readSocks, dataVars, bufferMutex, open,
                   caller, histVars>>

\* The descriptors the for loop has still to visit: s <= x <= maxSock, set in
\* readSocks.
Ready == {x \in readSocks : s <= x /\ x <= maxSock}

\* The thread is at the while test: at "top", or in a for loop that has no
\* descriptor left to visit.
AtWhile == listenerThread = "top" \/ (listenerThread = "for" /\ Ready = {})

\* while (continueListening) holds: readSocks = clients, select is entered.
Iterate ==
    /\ AtWhile
    /\ continueListening
    /\ readSocks' = clients
    /\ s' = 0
    /\ listenerThread' = "select"
    /\ ev' = ListenerEvent("while", FALSE, INVALID_SOCKET, 0, TRUE)
    /\ UNCHANGED <<endpointVars, setVars, dataVars, bufferMutex, open, caller,
                   histVars>>

\* while (continueListening) sees the flag lowered: the thread function returns.
ListenerExit ==
    /\ AtWhile
    /\ ~continueListening
    /\ listenerThread' = "done"
    /\ s' = 0
    /\ ev' = ListenerEvent("while", FALSE, INVALID_SOCKET, 0, FALSE)
    /\ UNCHANGED <<endpointVars, readSocks, setVars, dataVars, bufferMutex,
                   open, caller, histVars>>

\* select returns: it leaves in readSocks the descriptors that are ready
\* (none of them when it timed out), and the for loop starts at s = 0.  A
\* connection whose peer has closed is ready.
Select ==
    /\ listenerThread = "select"
    /\ \E ready \in SUBSET readSocks :
          /\ readSocks \cap PeerClosed \subseteq ready
          /\ readSocks' = ready
    /\ s' = 0
    /\ listenerThread' = "for"
    /\ ev' = ListenerEvent("select", FALSE, INVALID_SOCKET, 0, TRUE)
    /\ UNCHANGED <<endpointVars, setVars, dataVars, bufferMutex, open, caller,
                   histVars>>

\* select returned SOCKET_ERROR: continue, back to the while test.
SelectFailed ==
    /\ listenerThread = "select"
    /\ listenerThread' = "top"
    /\ ev' = ListenerEvent("select", FALSE, INVALID_SOCKET, SOCKET_ERROR, FALSE)
    /\ UNCHANGED <<endpointVars, s, readSocks, setVars, dataVars, bufferMutex,
                   open, caller, histVars>>

\* s == sock: accept succeeded, the new descriptor joins clients.
Accept ==
    /\ listenerThread = "for"
    /\ Ready # {}
    /\ Min(Ready) = sock
    /\ Ids \ DOMAIN open # {}
    /\ LET newSock == LowestFree
       IN  /\ open' = MapPut(open, newSock, "connection")
           /\ clients' = clients \cup {newSock}
           /\ maxSock' = IF newSock > maxSock THEN newSock ELSE maxSock
           /\ ev' = ListenerEvent("accept", FALSE, newSock, 0, TRUE)
    /\ s' = sock + 1
    /\ UNCHANGED <<endpointVars, listenerThread, readSocks, dataVars,
                   bufferMutex, caller, histVars>>

\* A failed accept that breaks out of the for loop.
AcceptFailedBreaks ==
    /\ listenerThread = "for"
    /\ Ready # {}
    /\ Min(Ready) = sock
    /\ s' = 0
    /\ listenerThread' = "top"
    /\ ev' = ListenerEvent("accept", FALSE, INVALID_SOCKET, SOCKET_ERROR, FALSE)
    /\ UNCHANGED <<endpointVars, readSocks, setVars, dataVars, bufferMutex, open,
                   caller, histVars>>

\* s == sock: accept returned SOCKET_ERROR, the for loop continues.
AcceptFailed ==
    /\ listenerThread = "for"
    /\ Ready # {}
    /\ Min(Ready) = sock
    /\ s' = sock + 1
    /\ ev' = ListenerEvent("accept", FALSE, INVALID_SOCKET, SOCKET_ERROR, FALSE)
    /\ UNCHANGED <<endpointVars, listenerThread, readSocks, setVars, dataVars,
                   bufferMutex, open, caller, histVars>>

\* DropClient without clientBuffers.erase(sockId).
DropClientKeepsBuffer(sockId, buffers) ==
    /\ clients' = clients \ {sockId}
    /\ clientBuffers' = buffers
    /\ failedSendCount' = MapErase(failedSendCount, sockId)
    /\ open' = MapErase(open, sockId)
    /\ failStreak' = [failStreak EXCEPT ![sockId] = 0]

\* A DropClient that clears every counter and every buffer.
DropClientClearsAll(sockId, buffers) ==
    /\ clients' = clients \ {sockId}
    /\ clientBuffers' = EmptyMap
    /\ failedSendCount' = EmptyMap
    /\ open' = MapErase(open, sockId)
    /\ failStreak' = [failStreak EXCEPT ![sockId] = 0]

\* DropClient(sockId), applied to the registry as the calling code left it.
DropClient(sockId, buffers) ==
    /\ clients' = clients \ {sockId}
    /\ clientBuffers' = MapErase(buffers, sockId)
    /\ failedSendCount' = MapErase(failedSendCount, sockId)
    /\ open' = MapErase(open, sockId)
    /\ failStreak' = [failStreak EXCEPT ![sockId] = 0]

\* A queue that puts the newest identity first.
PushFront(queue, newSock) == <<newSock>> \o queue

\* clientRcvQueue.push(newSock)
Push(queue, newSock) == Append(queue, newSock)

\* A condition variable that wakes nobody.
NotifyNobody(waiter) == waiter

\* clientDataCondition.notify_one(): a consumer blocked in wait_for becomes
\* runnable; with no consumer blocked the call does nothing.
NotifyOne(waiter) == IF waiter = "wait" THEN "notified" ELSE waiter

\* HandleClient(newSock), recv returning n.  bufferMutex is held throughout.
HandleClient(newSock, n) ==
    LET received == DoReceive(newSock, n)
        sized == MapPut(received, newSock,
                        [received[newSock] EXCEPT !.messageSize = n])
    IN  IF n <= 0
        THEN /\ DropClient(newSock, sized)
             /\ UNCHANGED <<clientRcvQueue, arrived, maxSock, caller>>
        ELSE /\ clientBuffers' = sized
             /\ clientRcvQueue' = Push(clientRcvQueue, newSock)
             /\ caller' = NotifyOne(caller)
             /\ arrived' = Append(arrived, newSock)
             /\ UNCHANGED <<setVars, failedSendCount, open, failStreak>>

\* HandleClient without its lock_guard.
MayHandleUnlocked == TRUE

\* The lock_guard of HandleClient: the handler runs once bufferMutex is free.
MayHandle == bufferMutex = "free"

\* s is a ready descriptor other than sock, and recv returns n.
Handle(n) ==
    /\ listenerThread = "for"
    /\ Ready # {}
    /\ Min(Ready) # sock
    /\ MayHandle
    /\ n \in OsRecv(Min(Ready))
    /\ HandleClient(Min(Ready), n)
    /\ ev' = ListenerEvent("HandleClient", TRUE, Min(Ready), n, n > 0)
    /\ s' = Min(Ready) + 1
    /\ UNCHANGED <<endpointVars, listenerThread, readSocks, bufferMutex>>

\* recv returns a message.
HandleData ==
    /\ Len(clientRcvQueue) < MaxQueue
    /\ \E n \in 1..MaxMessageSize : Handle(n)

\* recv returns 0 (the peer closed) or SOCKET_ERROR.
HandleClose ==
    \E n \in {0, SOCKET_ERROR} : Handle(n)

\* ------------------------------------------------------------ calling thread
GetLock ==
    /\ caller = "idle"
    /\ bufferMutex = "free"
    /\ bufferMutex' = "caller"
    /\ ev' = Event("GetLock", "caller", TRUE, INVALID_SOCKET, 0, TRUE, <<>>, <<>>)
    /\ UNCHANGED <<endpointVars, loopVars, setVars, dataVars, open, caller,
                   histVars>>

ReleaseLock ==
    /\ caller = "idle"
    /\ bufferMutex = "caller"
    /\ bufferMutex' = "free"
    /\ ev' = Event("ReleaseLock", "caller", FALSE, INVALID_SOCKET, 0, TRUE, <<>>, <<>>)
    /\ UNCHANGED <<endpointVars, loopVars, setVars, dataVars, open, caller,
                   histVars>>

\* WaitForClientData whose return value is always true.
WaitForClientDataTrue == TRUE

\* The value WaitForClientData returns, and the predicate of its wait_for:
\* !clientRcvQueue.empty(), evaluated with bufferMutex held.
WaitForClientData == clientRcvQueue # <<>>

\* WaitForClientData(timeout) is called by a thread that does not hold
\* bufferMutex: it locks, and with the predicate true it returns at once;
\* otherwise wait_for releases the lock and blocks.
WaitEnter ==
    /\ caller = "idle"
    /\ bufferMutex = "free"
    /\ IF WaitForClientData
       THEN /\ caller' = "idle"
            /\ ev' = Event("WaitForClientData", "caller", TRUE, INVALID_SOCKET, 0,
                           WaitForClientData, <<>>, <<>>)
       ELSE /\ caller' = "wait"
            /\ ev' = Event("wait_for", "caller", TRUE, INVALID_SOCKET, 0, FALSE,
                           <<>>, <<>>)
    /\ UNCHANGED <<endpointVars, loopVars, setVars, dataVars, bufferMutex, open,
                   histVars>>

\* The timeout of wait_for elapses while the consumer is blocked.
WaitTimeout ==
    /\ caller = "wait"
    /\ caller' = "expired"
    /\ UNCHANGED <<endpointVars, loopVars, setVars, dataVars, bufferMutex, open,
                   ev, histVars>>

\* The consumer runs again, notified or timed out: it takes the lock again; a
\* notified consumer whose predicate is false goes back to waiting, otherwise
\* WaitForClientData returns.
WaitReturn ==
    /\ caller \in {"notified", "expired"}
    /\ bufferMutex = "free"
    /\ IF caller = "notified" /\ ~WaitForClientData
       THEN /\ caller' = "wait"
            /\ UNCHANGED ev
       ELSE /\ caller' = "idle"
            /\ ev' = Event("WaitForClientData", "caller", TRUE, INVALID_SOCKET, 0,
                           WaitForClientData, <<>>, <<>>)
    /\ UNCHANGED <<endpointVars, loopVars, setVars, dataVars, bufferMutex, open,
                   histVars>>

\* The identities a caller passes to DropClient: descriptors other than the
\* listening socket that are, or were, connections.
Droppable ==
    {x \in Ids \ {sock} : x \in DOMAIN open => open[x] = "connection"}

\* DropClient(sockId) called from outside the listener thread.
CallerDropClient ==
    /\ caller = "idle"
    /\ type = "SocketTCPServer"
    /\ \E sockId \in Droppable :
        /\ DropClient(sockId, clientBuffers)
        /\ ev' = CallerEvent("DropClient", sockId, 0, TRUE, <<>>, <<>>)
    /\ UNCHANGED <<endpointVars, loopVars, maxSock, clientRcvQueue, bufferMutex,
                   caller, arrived>>

\* A peek that reports the newest entry of the queue.
ReceiveNewest ==
    LET newest == clientRcvQueue[Len(clientRcvQueue)]
    IN  IF clientRcvQueue = <<>>
        THEN [ret |-> SOCKET_ERROR, sockId |-> INVALID_SOCKET,
              buffers |-> clientBuffers]
        ELSE [ret |-> BuffersWith(newest)[newest].messageSize,
              sockId |-> newest,
              buffers |-> BuffersWith(newest)]

\* Receive(SocketID& sockId), the peek: the value returned and the identity
\* written to sockId (INVALID_SOCKET standing for "sockId not written").
Receive ==
    IF clientRcvQueue = <<>>
    THEN [ret |-> SOCKET_ERROR, sockId |-> INVALID_SOCKET,
          buffers |-> clientBuffers]
    ELSE [ret |-> BuffersWith(Head(clientRcvQueue))[Head(clientRcvQueue)].messageSize,
          sockId |-> Head(clientRcvQueue),
          buffers |-> BuffersWith(Head(clientRcvQueue))]

Peek ==
    /\ caller = "idle"
    /\ type = "SocketTCPServer"
    /\ clientBuffers' = Receive.buffers
    /\ ev' = CallerEvent("Receive", Receive.sockId, Receive.ret,
                         Receive.ret # SOCKET_ERROR, <<>>, <<>>)
    /\ UNCHANGED <<endpointVars, loopVars, setVars, clientRcvQueue,
                   failedSendCount, bufferMutex, open, caller, histVars>>

\* GetLastMessage on a TCP server (its assert makes the empty queue a
\* precondition): the identity whose buffer is handed out, the bytes a read
\* through the returned pointer finds (none when the vector is empty), and
\* the queue and registry it leaves.
GetLastMessage ==
    [sockId |-> Head(clientRcvQueue),
     data |-> BuffersWith(Head(clientRcvQueue))[Head(clientRcvQueue)].buffer,
     buffers |-> BuffersWith(Head(clientRcvQueue)),
     queue |-> Tail(clientRcvQueue)]

Consume ==
    /\ caller = "idle"
    /\ type = "SocketTCPServer"
    /\ clientRcvQueue # <<>>
    /\ clientBuffers' = GetLastMessage.buffers
    /\ clientRcvQueue' = GetLastMessage.queue
    /\ arrived' = Tail(arrived)
    /\ ev' = CallerEvent("GetLastMessage", GetLastMessage.sockId, 0,
                         GetLastMessage.data # <<>>, <<>>, GetLastMessage.data)
    /\ UNCHANGED <<endpointVars, loopVars, setVars, failedSendCount,
                   bufferMutex, open, caller, failStreak>>

\* TCPSend(client, buffer, n): the result, the counters and the sends made,
\* res giving the outcome of each operating-system send.
TCPSend(client, n, res) ==
    IF client \notin clients /\ client # sock
    THEN [ok |-> FALSE, counts |-> failedSendCount, sent |-> <<>>]
    ELSE LET bytesSent == SendOutcome(res, client)
         IN  [ok |-> ~SendFailed(bytesSent, n),
              counts |-> CountSend(failedSendCount, client, bytesSent, n),
              sent |-> <<<<client, bytesSent>>>>]

\* The for loop of TCPServerSend, leaving the loop at the first failed send.
RECURSIVE ServerSendLoopBreaks(_, _, _, _)
ServerSendLoopBreaks(x, n, res, acc) ==
    IF x > maxSock \/ ~acc.success THEN acc
    ELSE IF x \notin clients \/ x = sock
    THEN ServerSendLoopBreaks(x + 1, n, res, acc)
    ELSE LET bytesSent == SendOutcome(res, x)
         IN  ServerSendLoopBreaks(x + 1, n, res,
                [success |-> acc.success /\ ~SendFailed(bytesSent, n),
                 calledSend |-> TRUE,
                 counts |-> CountSend(acc.counts, x, bytesSent, n),
                 sent |-> Append(acc.sent, <<x, bytesSent>>)])

\* The for loop of TCPServerSend from descriptor x on.
RECURSIVE ServerSendLoop(_, _, _, _)
ServerSendLoop(x, n, res, acc) ==
    IF x > maxSock THEN acc
    ELSE IF x \notin clients \/ x = sock
    THEN ServerSendLoop(x + 1, n, res, acc)
    ELSE LET bytesSent == SendOutcome(res, x)
         IN  ServerSendLoop(x + 1, n, res,
                [success |-> acc.success /\ ~SendFailed(bytesSent, n),
                 calledSend |-> TRUE,
                 counts |-> CountSend(acc.counts, x, bytesSent, n),
                 sent |-> Append(acc.sent, <<x, bytesSent>>)])

\* TCPServerSend returning success without the calledSend test.
TCPServerSendNoCalledSend(n, res) ==
    LET r == ServerSendLoop(0, n, res,
                [success |-> TRUE, calledSend |-> FALSE,
                 counts |-> failedSendCount, sent |-> <<>>])
    IN  [ok |-> r.success, counts |-> r.counts, sent |-> r.sent]

\* TCPSend(buffer, n) on a TCP server, i.e. TCPServerSend.
TCPServerSend(n, res) ==
    LET r == ServerSendLoop(0, n, res,
                [success |-> TRUE, calledSend |-> FALSE,
                 counts |-> failedSendCount, sent |-> <<>>])
    IN  [ok |-> r.success /\ r.calledSend, counts |-> r.counts, sent |-> r.sent]

\* History: the run of failed sends of each descriptor after the sends made.
StreakAfter(sent, n) ==
    [x \in SocketIDs |->
        IF \E i \in 1..Len(sent) : sent[i][1] = x
        THEN IF \E i \in 1..Len(sent) : sent[i][1] = x /\ ~SendFailed(sent[i][2], n)
             THEN 0 ELSE failStreak[x] + 1
        ELSE failStreak[x]]

\* A send operation that deregisters the peers its sends failed for.
SendResultDrops(op, id, n, r) ==
    /\ failedSendCount' = r.counts
    /\ failStreak' = StreakAfter(r.sent, n)
    /\ ev' = CallerEvent(op, id, n, r.ok, r.sent, <<>>)
    /\ clients' = clients \ {r.sent[i][1] : i \in {j \in 1..Len(r.sent) :
                                                    SendFailed(r.sent[j][2], n)}}
    /\ UNCHANGED <<endpointVars, loopVars, maxSock, clientBuffers,
                   clientRcvQueue, bufferMutex, open, caller, arrived>>

\* A send operation with result r.
SendResult(op, id, n, r) ==
    /\ failedSendCount' = r.counts
    /\ failStreak' = StreakAfter(r.sent, n)
    /\ ev' = CallerEvent(op, id, n, r.ok, r.sent, <<>>)
    /\ UNCHANGED <<endpointVars, loopVars, setVars, clientBuffers,
                   clientRcvQueue, bufferMutex, open, caller, arrived>>

\* A send operation with result r, the counters kept within MaxFail.
Sent(op, id, n, r) ==
    /\ \A x \in DOMAIN r.counts : r.counts[x] <= MaxFail
    /\ SendResult(op, id, n, r)

Unicast ==
    /\ caller = "idle"
    /\ type = "SocketTCPServer"
    /\ \E client \in SocketIDs, n \in 1..MaxBufferSize :
        \E res \in [Connected \cap {client} -> (-1)..n] :
            Sent("TCPSend", client, n, TCPSend(client, n, res))

Broadcast ==
    /\ caller = "idle"
    /\ type = "SocketTCPServer"
    /\ \E n \in 1..MaxBufferSize :
        \E res \in [Connected -> (-1)..n] :
            Sent("TCPServerSend", INVALID_SOCKET, n, TCPServerSend(n, res))

\* The caller repeats the TCPSend that just failed, to the only peer of the
\* endpoint, whose connection is broken: every operating-system send returns
\* SOCKET_ERROR, and the listener thread sits in select meanwhile.
Resend ==
    /\ caller = "idle"
    /\ type = "SocketTCPServer"
    /\ listenerThread = "select"
    /\ ev.op = "TCPSend"
    /\ ~ev.ok
    /\ clients \ {sock} = {ev.id}
    /\ failStreak[ev.id] <= USHRT_MAX
    /\ SendResult("TCPSend", ev.id, ev.n,
              TCPSend(ev.id, ev.n, [x \in Connected \cap {ev.id} |-> SOCKET_ERROR]))

CountClients ==
    /\ caller = "idle"
    /\ type = "SocketTCPServer"
    /\ ev' = CallerEvent("GetClientCount", INVALID_SOCKET, GetClientCount, TRUE,
                         <<>>, <<>>)
    /\ UNCHANGED <<endpointVars, loopVars, setVars, dataVars, bufferMutex, open,
                   caller, histVars>>

\* ------------------------------------------------------------ specification
Lifecycle == Create \/ Destroy \/ DestroyJoin

Listener ==
    \/ ListenThreadEntry
    \/ Iterate
    \/ ListenerExit
    \/ Select
    \/ SelectFailed
    \/ Accept
    \/ AcceptFailed
    \/ HandleData
    \/ HandleClose

Locking == GetLock \/ ReleaseLock

Next ==
    \/ Lifecycle
    \/ Listener
    \/ Locking
    \/ CallerDropClient
    \/ Peek
    \/ Consume
    \/ Unicast
    \/ Broadcast
    \/ CountClients
    \/ WaitEnter
    \/ WaitTimeout
    \/ WaitReturn

\* The endpoint with every operation.
Spec == Init /\ [][Next]_vars

\* The endpoint whose caller only drops peers: the interleavings of accept,
\* receive, disconnect and DropClient.
NextLoop == Lifecycle \/ Listener \/ CallerDropClient

SpecLoop == Init /\ [][NextLoop]_vars

\* The endpoint whose caller consumes what is received and sends nothing.
NextReceive ==
    Lifecycle \/ Listener \/ Locking \/ CallerDropClient \/ Peek \/ Consume
        \/ CountClients

SpecReceive == Init /\ [][NextReceive]_vars

\* The endpoint whose caller sends and whose peers send nothing.
NextSend ==
    \/ Lifecycle
    \/ ListenThreadEntry
    \/ Iterate
    \/ ListenerExit
    \/ Select
    \/ SelectFailed
    \/ Accept
    \/ AcceptFailed
    \/ HandleClose
    \/ Locking
    \/ CallerDropClient
    \/ Unicast
    \/ Broadcast
    \/ CountClients

SpecSend == Init /\ [][NextSend]_vars

\* The endpoint whose caller waits for data; Destroy empties the queue again.
\* A consumer that was notified or timed out is scheduled again.
NextWait == Lifecycle \/ Listener \/ WaitEnter \/ WaitTimeout \/ WaitReturn

SpecWait == Init /\ [][NextWait]_vars /\ WF_vars(WaitReturn)

\* The endpoint whose caller takes and releases the lock and stops the
\* listener.  The listener thread is scheduled whenever it can take a step
\* (select returns within its timeout), and a join whose thread has returned
\* returns.
NextStop == Lifecycle \/ Listener \/ Locking

SpecStop ==
    Init /\ [][NextStop]_vars /\ WF_vars(Listener) /\ WF_vars(DestroyJoin)

\* The endpoint whose caller keeps sending to a peer that no longer answers:
\* the listener thread accepts peers until a send has failed more than
\* MaxFail times in a row, after that only the caller's resends run.
Settled == \A x \in DOMAIN failedSendCount : failedSendCount[x] <= MaxFail

NextResend ==
    \/ Settled /\ Create
    \/ Settled /\ ListenThreadEntry
    \/ Settled /\ Iterate
    \/ Settled /\ Select
    \/ Settled /\ Accept
    \/ Settled /\ Unicast
    \/ Resend

SpecResend == Init /\ [][NextResend]_vars

\* The process has not been aborted.
Running == caller # "aborted"

\* The peer of a connection closes its socket.
PeerCloses ==
    \E x \in Connected :
        /\ open' = [open EXCEPT ![x] = "closed by peer"]
        /\ ev' = Event("close", "peer", FALSE, x, 0, TRUE, <<>>, <<>>)
        /\ UNCHANGED <<endpointVars, loopVars, setVars, dataVars, bufferMutex,
                       caller, histVars>>

\* The first connection to the server is accepted.
FirstAccept == maxSock = sock /\ Accept

\* The steps of the listener thread of a server that is not stopped.
LoopSteps ==
    \/ ListenThreadEntry
    \/ Iterate
    \/ Select
    \/ SelectFailed
    \/ FirstAccept
    \/ AcceptFailed
    \/ HandleData
    \/ HandleClose

\* One client's session with a running server: it connects, sends, and
\* closes, the caller waiting for, peeking at and consuming what arrives.
\* The listener thread keeps running and select does not fail for ever.
NextSession ==
    \/ Create
    \/ LoopSteps
    \/ PeerCloses
    \/ WaitEnter
    \/ WaitTimeout
    \/ WaitReturn
    \/ Peek
    \/ Consume
    \/ CountClients

SpecSession ==
    Init /\ [][NextSession]_vars /\ WF_vars(LoopSteps) /\ SF_vars(Select)

\* The running TCP server whose peers connect, send and close while the
\* caller sends to one or to all of them.
NextTraffic ==
    \/ Create
    \/ ListenThreadEntry
    \/ Iterate
    \/ Select
    \/ SelectFailed
    \/ Accept
    \/ AcceptFailed
    \/ HandleData
    \/ HandleClose
    \/ Unicast
    \/ Broadcast

SpecTraffic == Init /\ [][NextTraffic]_vars

\* The TCP server through its life, peers accepted and deregistered by the
\* listener thread, by the caller and by Destroy, the caller counting them.
NextCount == Lifecycle \/ Listener \/ CallerDropClient \/ CountClients

SpecCount == Init /\ [][NextCount]_vars

\* The TCP server whose peers send, are sent to and are dropped.
NextDrop == Lifecycle \/ Listener \/ CallerDropClient \/ Unicast

SpecDrop == Init /\ [][NextDrop]_vars

\* -------------------------------------------------- operations by type
\* The functions that open with an assertion on the endpoint's type, and the
\* two of the TCP server's interface that do not.
Operations ==
    {"UDPSend", "TCPSendAll", "TCPSend", "Receive", "GetLastMessage",
     "WaitForClientData", "ClientIsConnected", "DropClient",
     "GetFailedSendCount", "GetClientCount"}

\* The assertion function op opens with fails on this endpoint:
\* assert(!IsTCP()) in UDPSend, assert(IsTCP()) in the broadcast TCPSend,
\* assert(type == SocketTCPServer) in the unicast TCPSend, Receive(SocketID&),
\* ClientIsConnected, DropClient, GetFailedSendCount and GetClientCount;
\* GetLastMessage and WaitForClientData assert nothing about the type.
AssertFails(op) ==
    CASE op = "UDPSend" -> IsTCP
      [] op = "TCPSendAll" -> ~IsTCP
      [] op \in {"GetLastMessage", "WaitForClientData"} -> FALSE
      [] OTHER -> type # "SocketTCPServer"

\* A call that stops at its assertion: the process is aborted before the
\* function does anything.
AssertType ==
    \E op \in Operations :
        /\ caller = "idle"
        /\ AssertFails(op)
        /\ caller' = "aborted"
        /\ ev' = CallerEvent(op, INVALID_SOCKET, 0, FALSE, <<>>, <<>>)
        /\ UNCHANGED <<endpointVars, loopVars, setVars, dataVars, bufferMutex,
                       open, histVars>>

\* What sendto(sock) and, on a client, send(sock) can return.
OsSendOwn(n, kinds) ==
    IF sock \in DOMAIN open /\ open[sock] \in kinds THEN (-1)..n
    ELSE {SOCKET_ERROR}

\* UDPSend(addr, port, buffer, n) on an endpoint that is not TCP.
UDPSend ==
    \E n \in 1..MaxBufferSize :
        \E bytesSent \in OsSendOwn(n, {"socket", "bound"}) :
            /\ caller = "idle"
            /\ ~AssertFails("UDPSend")
            /\ ev' = [CallerEvent("UDPSend", sock, n, ~SendFailed(bytesSent, n),
                                  <<<<sock, bytesSent>>>>, <<>>)
                         EXCEPT !.calls = <<<<"sendto", bytesSent # SOCKET_ERROR>>>>]
            /\ UNCHANGED <<endpointVars, loopVars, setVars, dataVars,
                           bufferMutex, open, caller, histVars>>

\* TCPSend(buffer, n) on a TCP client: one send on sock.
ClientSend ==
    \E n \in 1..MaxBufferSize :
        \E bytesSent \in OsSendOwn(n, {"connected"}) :
            /\ caller = "idle"
            /\ ~AssertFails("TCPSendAll")
            /\ ~IsServer
            /\ ev' = [CallerEvent("TCPSendAll", sock, n,
                                  ~SendFailed(bytesSent, n),
                                  <<<<sock, bytesSent>>>>, <<>>)
                         EXCEPT !.calls = <<<<"send", bytesSent # SOCKET_ERROR>>>>]
            /\ UNCHANGED <<endpointVars, loopVars, setVars, dataVars,
                           bufferMutex, open, caller, histVars>>

\* GetLastMessage() on an endpoint that is no TCP server: &rcvBuffer.front(),
\* the buffer of maxMessageSize bytes the constructor made.
LastReceived ==
    /\ caller = "idle"
    /\ type # "SocketTCPServer"
    /\ ev' = CallerEvent("GetLastMessage", sock, 0, TRUE, <<>>,
                         [i \in 1..MaxMessageSize |-> 0])
    /\ UNCHANGED <<endpointVars, loopVars, setVars, dataVars, bufferMutex,
                   open, caller, histVars>>

\* Endpoints of every type and the operations of the interface called on
\* them, whatever the type.
NextMode ==
    \/ CreateAny
    \/ Destroy
    \/ DestroyJoin
    \/ Running /\ ListenThreadEntry
    \/ Running /\ Iterate
    \/ Running /\ ListenerExit
    \/ Running /\ Select
    \/ Running /\ SelectFailed
    \/ Running /\ AcceptFailed
    \/ Running /\ HandleClose
    \/ AssertType
    \/ UDPSend
    \/ ClientSend
    \/ LastReceived
    \/ WaitEnter
    \/ WaitTimeout
    \/ WaitReturn

SpecMode == InitAny /\ [][NextMode]_vars

\* The static function GetBestLocalIPAddress, called with any destination
\* while the system enumerates any local addresses.
BestLocalIPAddress ==
    \E destination \in Addresses \cup {<<>>}, ips \in LocalLists :
        /\ ev' = [CallerEvent("GetBestLocalIPAddress", INVALID_SOCKET, 0, TRUE,
                               <<>>, <<>>)
                     EXCEPT !.target = destination, !.ips = ips,
                            !.address = GetBestLocalIPAddress(destination, ips)]
        /\ UNCHANGED <<endpointVars, loopVars, setVars, dataVars, bufferMutex,
                       open, caller, histVars>>

SpecAddress == Init /\ [][BestLocalIPAddress]_vars

\* Endpoints of every type under Create, Bind and Destroy, no peer
\* connecting; the listener thread runs as long as the process does.

NextCreate ==
    \/ CreateAny
    \/ BindAny
    \/ Destroy
    \/ DestroyJoin
    \/ Running /\ ListenThreadEntry
    \/ Running /\ Iterate
    \/ Running /\ ListenerExit
    \/ Running /\ Select
    \/ Running /\ SelectFailed
    \/ Running /\ AcceptFailed
    \/ Running /\ HandleClose

SpecCreate == InitAny /\ [][NextCreate]_vars

\* ------------------------------------------------------------------ claims

C2_DisconnectedPeerNotQueued ==
    (ev.op = "HandleClient" /\ ev.n <= 0) =>
        /\ ev.id \notin clients
        /\ ev.id \notin DOMAIN clientBuffers
        /\ ev.id \notin Range(clientRcvQueue)

\* C3: the pending-receipt queue holds the peers of the messages received and
\* not yet consumed, one entry each, in the order of their receives; a peek
\* reports the oldest of them and a consume hands out the oldest and removes
\* it.
C3_ArrivalOrder ==
    /\ [](clientRcvQueue = arrived)
    /\ []((ev.op = "Receive" /\ ev.ok) => (arrived # <<>> /\ ev.id = Head(arrived)))
    /\ [][(ev'.op = "GetLastMessage" /\ arrived # <<>> /\ arrived' = Tail(arrived))
            => ev'.id = Head(arrived)]_vars

\* Messages of two distinct peers were queued, the consumer has taken the
\* first peer's and the second peer's is waiting.
C3_Witness ==
    /\ ev.op = "GetLastMessage"
    /\ Len(clientRcvQueue) = 1
    /\ ev.id # Head(clientRcvQueue)
    /\ ev.id \in DOMAIN clientBuffers

\* C4: no identity occurs twice in the pending-receipt queue.
C4_NoDuplicateInQueue ==
    \A i, j \in 1..Len(clientRcvQueue) :
        clientRcvQueue[i] = clientRcvQueue[j] => i = j

\* C5: the accept path and the receive handler of the listener thread touch
\* the shared state only while the listener thread holds bufferMutex.
C5_ListenerHoldsMutex ==
    (ev.thread = "listener" /\ ev.op \in {"accept", "HandleClient"}) => ev.locked

\* C6: while the calling thread holds bufferMutex, no step of the listener
\* thread changes a peer buffer or the registry, pushes onto the queue, or
\* removes or closes a peer.
C6_ListenerWaitsForLock ==
    [][(bufferMutex = "caller" /\ ev'.thread = "listener") =>
            /\ clientBuffers' = clientBuffers
            /\ clientRcvQueue' = clientRcvQueue
            /\ clients \subseteq clients'
            /\ DOMAIN open \subseteq DOMAIN open']_vars

\* The consumer holds the lock and has consumed a message while the listener
\* thread stands before the receive handler of a ready peer.
C6_Witness ==
    /\ bufferMutex = "caller"
    /\ ev.op = "GetLastMessage"
    /\ ev.ok
    /\ listenerThread = "for"
    /\ Ready # {}
    /\ Min(Ready) # sock

\* C7: on a created endpoint, a unicast TCPSend to an identity that is not a
\* registered peer returns false and makes no operating-system send.
C7_UnregisteredSendFails ==
    (ev.op = "TCPSend" /\ sock \in DOMAIN open /\ ~IsPeer(ev.id)) =>
        (~ev.ok /\ ev.sent = <<>>)

\* C8: a broadcast TCPSend with no registered peer returns false and makes no
\* operating-system send.
C8_BroadcastWithoutPeers ==
    (ev.op = "TCPServerSend" /\ clients \ {sock} = {}) =>
        (~ev.ok /\ ev.sent = <<>>)

\* A broadcast was made on a listening endpoint that has no peer.
C8_Witness ==
    /\ ev.op = "TCPServerSend"
    /\ clients = {sock}
    /\ listenerThread \in {"select", "for"}

\* C9: a broadcast TCPSend makes exactly one operating-system send to every
\* registered peer and none to any other descriptor, whatever the sends
\* return, and it returns true exactly when it made at least one send and
\* every send wrote the requested number of bytes.
C9_BroadcastFanOut ==
    ev.op = "TCPServerSend" =>
        /\ {ev.sent[i][1] : i \in 1..Len(ev.sent)} = clients \ {sock}
        /\ Len(ev.sent) = Cardinality(clients \ {sock})
        /\ ev.ok <=> (/\ Len(ev.sent) > 0
                      /\ \A i \in 1..Len(ev.sent) : ev.sent[i][2] = ev.n)

\* A broadcast to two peers whose first send failed and whose second send
\* wrote everything.
C9_Witness ==
    /\ ev.op = "TCPServerSend"
    /\ Len(ev.sent) = 2
    /\ ev.sent[1][2] # ev.n
    /\ ev.sent[2][2] = ev.n
    /\ ~ev.ok

\* C10: the failed-send counter of every registered peer equals the number of
\* sends to it that failed or were short since its last fully successful
\* send (0 right after a successful one, M after M failures in a row).
C10_CountEqualsStreak ==
    \A p \in clients \ {sock} : GetFailedSendCount(p) = failStreak[p]

\* C11: the failed-send counter of a peer is never negative, and it goes from
\* a positive value to 0 only in a step that made a fully successful send to
\* that peer.
C11_ResetOnlyBySuccess ==
    /\ [](\A p \in DOMAIN failedSendCount : failedSendCount[p] >= 0)
    /\ [][\A p \in DOMAIN failedSendCount \cap DOMAIN failedSendCount' :
            (failedSendCount[p] > 0 /\ failedSendCount'[p] = 0) =>
                \E i \in 1..Len(ev'.sent) : ev'.sent[i] = <<p, ev'.n>>]_vars

\* C12: WaitForClientData returns true at once when the queue is non-empty at
\* the call, returns false when its timeout elapsed and the queue is empty,
\* and always returns whether the queue is non-empty at the return.
C12_WaitResult ==
    /\ [](ev.op = "WaitForClientData" => (ev.ok <=> clientRcvQueue # <<>>))
    /\ [][(caller = "idle" /\ clientRcvQueue # <<>>
            /\ ev'.op \in {"WaitForClientData", "wait_for"})
          => (ev'.op = "WaitForClientData" /\ ev'.ok /\ caller' = "idle")]_vars
    /\ [][(caller = "expired" /\ caller' = "idle" /\ clientRcvQueue = <<>>)
          => (ev'.op = "WaitForClientData" /\ ~ev'.ok)]_vars

\* A wait on a listening endpoint has timed out and returned false.
C12_Witness ==
    /\ ev.op = "WaitForClientData"
    /\ ~ev.ok
    /\ clientRcvQueue = <<>>
    /\ listenerThread \in {"select", "for"}

\* C13: a positive receive handled while a consumer is blocked in
\* WaitForClientData pushes the peer and makes the consumer runnable in the
\* same step, and a blocked consumer with a non-empty queue eventually
\* returns true.
C13_NoLostWakeup ==
    /\ [][(caller = "wait" /\ Len(clientRcvQueue') > Len(clientRcvQueue))
          => caller' = "notified"]_vars
    /\ (caller \in {"wait", "notified"} /\ clientRcvQueue # <<>>)
          ~> (caller = "idle" /\ ev.op = "WaitForClientData" /\ ev.ok)

\* A receive has just been handled while the consumer was blocked.
C13_Witness ==
    /\ caller = "notified"
    /\ ev.op = "HandleClient"
    /\ ev.n > 0
    /\ clientRcvQueue = <<ev.id>>

\* C14: Receive(SocketID&) leaves the pending-receipt queue as it is; on a
\* non-empty queue it reports the front identity and the message length the
\* registry records for it, on an empty queue it returns SOCKET_ERROR and
\* writes no identity.
C14_PeekLeavesQueue ==
    [][ev'.op = "Receive" =>
        /\ clientRcvQueue' = clientRcvQueue
        /\ IF clientRcvQueue = <<>>
           THEN ev'.n = SOCKET_ERROR /\ ev'.id = INVALID_SOCKET
           ELSE /\ ev'.id = Head(clientRcvQueue)
                /\ ev'.n = IF Head(clientRcvQueue) \in DOMAIN clientBuffers
                           THEN clientBuffers[Head(clientRcvQueue)].messageSize
                           ELSE 0]_vars

\* A peek on a queue that holds the messages of two distinct peers.
C14_Witness ==
    /\ ev.op = "Receive"
    /\ Len(clientRcvQueue) = 2
    /\ clientRcvQueue[1] # clientRcvQueue[2]
    /\ ev.id = clientRcvQueue[1]
    /\ ev.n > 0

\* C15: GetLastMessage on a non-empty queue removes the front entry, keeps
\* the rest in order, and returns the receive buffer that the registry holds
\* for the peer that was at the front.
C15_ConsumeReturnsFrontBuffer ==
    [][ev'.op = "GetLastMessage" =>
        /\ clientRcvQueue' = Tail(clientRcvQueue)
        /\ ev'.id = Head(clientRcvQueue)
        /\ Head(clientRcvQueue) \in DOMAIN clientBuffers
        /\ Len(ev'.data) = MaxMessageSize
        /\ ev'.data = clientBuffers[Head(clientRcvQueue)].buffer]_vars

\* C16: Destroy shuts down and closes only a descriptor the endpoint owns,
\* and a Destroy that follows a Destroy leaves every field of the endpoint
\* as it was.
C16_DestroyIdempotent ==
    /\ [](ev.op = "Destroy" => ev.ok)
    /\ [][(ev.op = "Destroy" /\ ev'.op = "Destroy") =>
            UNCHANGED <<endpointVars, loopVars, setVars, dataVars, bufferMutex,
                        open, caller>>]_vars

\* C17: sock is INVALID_SOCKET in every state before the endpoint is created
\* and in every state after Destroy has returned.
C17_SentinelWhenNotCreated ==
    ev.op \in {"construct", "Destroy"} => sock = INVALID_SOCKET

C19_DestroyClosesPeers == ev.op = "Destroy" => Connected = {}

\* C20: while Destroy waits in its join, the listener thread can take a step
\* or the join can return, whoever holds bufferMutex; so the listener thread
\* reaches its exit and Destroy returns.
C20_StopMakesProgress == caller = "join" => ENABLED (Listener \/ DestroyJoin)

\* The names of the calls an operation made, and those that failed.
CallsMade == {ev.calls[i][1] : i \in 1..Len(ev.calls)}
CallsFailed == {ev.calls[i][1] : i \in {j \in 1..Len(ev.calls) : ~ev.calls[j][2]}}

\* An operation that went past socket(): Create, or the Create or Bind that
\* ended in std::terminate.
Created ==
    /\ ev.op \in {"Create", "terminate"}
    /\ ev.calls # <<>>
    /\ ev.calls[1] = <<"socket", TRUE>>

\* C21: Create on a client-mode endpoint (TCP client or UDP client) connects
\* the new socket and never binds it.
C21_ClientConnectsNeverBinds ==
    Created /\ type \in {"SocketTCPClient", "SocketUDPClient"}
        => "connect" \in CallsMade /\ "bind" \notin CallsMade

C23_CreateReturnsFailure ==
    /\ ev.op # "terminate"
    /\ ev.op = "Create" =>
          /\ ev.ok = (CallsFailed = {})
          /\ ~ev.ok => listenerThread \in {"none", "done"}

\* C24: at most one listener thread exists and no call ends the process: a
\* Create or Bind on a TCP server whose listener thread is still running
\* neither starts a second thread nor aborts; endpoints of the other types
\* never have a listener thread.
C24_OneListenerThread ==
    /\ caller # "aborted"
    /\ type # "SocketTCPServer" => listenerThread = "none"

\* C28: GetBestLocalIPAddress(destination) returns the first local address
\* whose prefix up to (not including) its own last component equals the
\* destination's prefix up to its last component, and the empty string when
\* there is none or the destination is empty.
C28_BestLocalAddressByPrefix ==
    ev.op = "GetBestLocalIPAddress" =>
        LET equalPrefix == {i \in 1..Len(ev.ips) :
                               UpToLast(ev.ips[i], ".") = UpToLast(ev.target, ".")}
        IN  ev.address = IF ev.target = <<>> \/ equalPrefix = {} THEN <<>>
                         ELSE ev.ips[Min(equalPrefix)]

\* C27: an operation called on an endpoint of the wrong mode stops at an
\* assertion before any operating-system call: UDPSend on a TCP endpoint,
\* the broadcast TCPSend on a UDP or ICMP endpoint, and each operation of the
\* TCP server (unicast TCPSend, peek, consume, WaitForClientData,
\* ClientIsConnected, DropClient, GetFailedSendCount, GetClientCount) on an
\* endpoint that is no TCP server.
C27_WrongModeAsserts ==
    (\/ ev.op = "UDPSend" /\ IsTCP
     \/ ev.op = "TCPSendAll" /\ ~IsTCP
     \/ /\ ev.op \in {"TCPSend", "Receive", "GetLastMessage", "WaitForClientData",
                      "ClientIsConnected", "DropClient", "GetFailedSendCount",
                      "GetClientCount"}
        /\ type # "SocketTCPServer")
        => caller = "aborted" /\ ev.calls = <<>>

\* C29: the listener thread leaves its loop only at the while test, with
\* the stop flag lowered.  A failed select, a failed accept, a peer that
\* disconnected and a receive error leave it in the loop, and after a failed
\* accept the descriptors of that iteration that are ready and not yet
\* visited are still to be dispatched.
C29_LoopEndsOnlyOnStop ==
    [][/\ (listenerThread' = "done" /\ listenerThread # "done") =>
              AtWhile /\ ~continueListening
       /\ (ev' # ev /\ ev'.thread = "listener" /\ ~ev'.ok
              /\ ev'.op \in {"select", "accept", "HandleClient"}) =>
              listenerThread' \in {"top", "for"}
       /\ (ev' # ev /\ ev'.op = "accept" /\ ~ev'.ok) =>
              listenerThread' = "for" /\ Ready' = Ready \ {sock}
      ]_vars

\* accept has failed and a peer that is ready is still to be visited.
C29_Witness ==
    /\ ev.op = "accept"
    /\ ~ev.ok
    /\ listenerThread = "for"
    /\ Ready \cap Connected # {}

\* C30: deregistering a peer P, by the listener thread after a receive that
\* returned <= 0 or by the caller's DropClient, leaves every other descriptor
\* Q as it was: its membership in the descriptor set (the listening socket's
\* too), its registry entry with buffer and message length, and its
\* failed-send counter.
C30_DropLeavesOthers ==
    [][(ev' # ev /\ (\/ ev'.op = "DropClient"
                     \/ ev'.op = "HandleClient" /\ ev'.n <= 0)) =>
          \A q \in SocketIDs \ {ev'.id} :
              /\ q \in clients' <=> q \in clients
              /\ q \in DOMAIN clientBuffers' <=> q \in DOMAIN clientBuffers
              /\ q \in DOMAIN clientBuffers =>
                    clientBuffers'[q] = clientBuffers[q]
              /\ q \in DOMAIN failedSendCount' <=> q \in DOMAIN failedSendCount
              /\ q \in DOMAIN failedSendCount =>
                    failedSendCount'[q] = failedSendCount[q]
              /\ q \in DOMAIN open' <=> q \in DOMAIN open
      ]_vars

\* A peer has been deregistered while another peer is registered with a
\* message in its buffer and a failed send counted.
C30_Witness ==
    /\ ev.op \in {"DropClient", "HandleClient"}
    /\ ev.n <= 0
    /\ ev.id \notin clients
    /\ \E q \in Peers \ {ev.id} :
          /\ q \in DOMAIN clientBuffers
          /\ clientBuffers[q].messageSize > 0
          /\ q \in DOMAIN failedSendCount
          /\ failedSendCount[q] > 0

\* C26: the caller's DropClient(P) removes P from the descriptor set, the
\* registry and the counter map (so that ClientIsConnected(P) is false and
\* GetFailedSendCount(P) is 0 after it), and the listener thread calls no
\* further receive for P: it receives only for descriptors that are
\* registered.
C26_DroppedPeerIsGone ==
    [][/\ (ev' # ev /\ ev'.op = "DropClient") =>
              /\ ev'.id \notin clients'
              /\ ev'.id \notin DOMAIN clientBuffers'
              /\ ev'.id \notin DOMAIN failedSendCount'
       /\ (ev' # ev /\ ev'.op = "HandleClient") => ev'.id \in clients
      ]_vars

\* C25: a client connects to a running server and sends k bytes
\* (1 <= k <= maxMessageSize) that arrive in one receive: WaitForClientData
\* returns true, the peek reports k for that peer, the consume returns those
\* k bytes and GetClientCount is 1; after the client closed its socket the
\* listener thread eventually deregisters it and GetClientCount is 0 again.
C25_Session ==
    /\ [][LET P == Head(clientRcvQueue)
              pending == /\ clientRcvQueue # <<>>
                         /\ P \in clients
              k == clientBuffers[P].messageSize
          IN  /\ (ev' # ev /\ ev'.op = "WaitForClientData" /\ pending) => ev'.ok
              /\ (ev' # ev /\ ev'.op = "Receive" /\ pending) =>
                    /\ ev'.id = P
                    /\ ev'.n = k
                    /\ k \in 1..MaxMessageSize
                    /\ clientBuffers[P].buffer[1] = k
              /\ (ev' # ev /\ ev'.op = "GetLastMessage" /\ pending) =>
                    /\ ev'.id = P
                    /\ \A i \in 1..k : ev'.data[i] = k
              /\ (ev' # ev /\ ev'.op = "GetClientCount" /\ pending) => ev'.n = 1
         ]_vars
    /\ \A x \in Ids :
          (x \in PeerClosed /\ x \in clients) ~> (x \notin clients /\ GetClientCount = 0)

\* The caller has consumed the longest message from the one peer registered.
C25_Witness ==
    /\ ev.op = "GetLastMessage"
    /\ ev.id \in Peers
    /\ GetClientCount = 1
    /\ \A i \in 1..MaxMessageSize : ev.data[i] = MaxMessageSize

\* C31: no send operation, unicast or broadcast, failed, short or complete,
\* deregisters or closes a peer: the descriptor set, the client registry,
\* the pending-receipt queue and the open descriptors are the same before and
\* after it, whatever the failed-send counters hold.
C31_SendLeavesPeersRegistered ==
    [][(ev' # ev /\ ev'.op \in {"TCPSend", "TCPServerSend"}) =>
          /\ clients' = clients
          /\ maxSock' = maxSock
          /\ clientBuffers' = clientBuffers
          /\ clientRcvQueue' = clientRcvQueue
          /\ open' = open
      ]_vars

\* A send to a registered peer with a message queued has failed again, its
\* counter at the largest value of the model.
C31_Witness ==
    /\ ev.op \in {"TCPSend", "TCPServerSend"}
    /\ ~ev.ok
    /\ \E i \in 1..Len(ev.sent) :
          LET P == ev.sent[i][1]
          IN  /\ SendFailed(ev.sent[i][2], ev.n)
              /\ P \in Peers
              /\ P \in DOMAIN clientBuffers
              /\ P \in Range(clientRcvQueue)
              /\ P \in DOMAIN failedSendCount
              /\ failedSendCount[P] = MaxFail

\* C32: UDPSend and the TCPSend of a TCP client make one operating-system
\* write and return true exactly when it reported the requested number of
\* bytes (false for an error and for a short write); they create and change
\* no entry of the failed-send counter map.
C32_ConnectionlessSendResult ==
    [][(ev' # ev /\ ev'.op \in {"UDPSend", "TCPSendAll"} /\ caller' # "aborted") =>
          /\ Len(ev'.sent) = 1
          /\ ev'.sent[1][1] = sock
          /\ ev'.ok = (ev'.sent[1][2] = ev'.n)
          /\ failedSendCount' = failedSendCount
          /\ failedSendCount' = EmptyMap
      ]_vars

\* A UDP send wrote fewer bytes than requested and returned false.
C32_Witness ==
    /\ ev.op = "UDPSend"
    /\ ev.sent # <<>>
    /\ ev.sent[1][2] # SOCKET_ERROR
    /\ ev.sent[1][2] < ev.n
    /\ ~ev.ok

\* C33: the failed-send counter map has entries for registered peers only,
\* and a unicast send addressed to P changes the counter of no identity other
\* than P.
C33_CountersOfPeersOnly ==
    [][/\ DOMAIN failedSendCount' \subseteq Peers'
       /\ (ev' # ev /\ ev'.op = "TCPSend") =>
              \A q \in SocketIDs \ {ev'.id} :
                  /\ q \in DOMAIN failedSendCount' <=> q \in DOMAIN failedSendCount
                  /\ q \in DOMAIN failedSendCount =>
                        failedSendCount'[q] = failedSendCount[q]
      ]_vars

\* C34: the listener thread calls the receive handler for descriptor s only
\* if s is, at that moment, a peer in the descriptor set and open: no receive
\* and no second close is made on a descriptor the caller has dropped between
\* the readiness check and the dispatch.
C34_HandlerOnlyForRegistered ==
    [][(ev' # ev /\ ev'.op = "HandleClient") =>
          ev'.id \in Peers /\ ev'.id \in DOMAIN open
      ]_vars

\* C35: peek and consume add no entry to the client registry; when they run
\* with a non-empty queue the identity at its front has a registry entry
\* whose buffer a receive has filled, so that consume hands out no missing or
\* empty buffer.
C35_PeekConsumeAddNoEntry ==
    [][(ev' # ev /\ ev'.op \in {"Receive", "GetLastMessage"}) =>
          /\ DOMAIN clientBuffers' \subseteq DOMAIN clientBuffers
          /\ clientRcvQueue # <<>> =>
                /\ Head(clientRcvQueue) \in DOMAIN clientBuffers
                /\ clientBuffers[Head(clientRcvQueue)].buffer # <<>>
                /\ clientBuffers[Head(clientRcvQueue)].messageSize > 0
      ]_vars

\* C36: what peek and consume report for an entry of the queue, the length
\* and the bytes in the buffer of its peer, are those of the receive that
\* pushed the entry: a further receive handled for a peer that has an entry
\* pending leaves that peer's recorded length and buffer as they were.
C36_PendingMessageKept ==
    [][(ev' # ev /\ ev'.op = "HandleClient" /\ ev'.n > 0
            /\ ev'.id \in Range(clientRcvQueue)
            /\ ev'.id \in DOMAIN clientBuffers) =>
          /\ clientBuffers'[ev'.id].messageSize = clientBuffers[ev'.id].messageSize
          /\ clientBuffers'[ev'.id].buffer = clientBuffers[ev'.id].buffer
      ]_vars

\* C37: GetClientCount is the number of peers the listener thread has
\* accepted and that are not yet deregistered.  It is 0 on the constructed
\* endpoint, goes up by one with every accept, from the accept on, down by
\* one when a registered peer is deregistered by a receive <= 0 or by
\* DropClient, to 0 when Destroy returns, and no other step changes it (the
\* listening socket joining the descriptor set included); a call returns
\* that number.
C37_CountIsAcceptedPeers ==
    /\ (ev.op = "construct" => GetClientCount = 0)
    /\ [][IF ev' # ev /\ ev'.op = "accept" /\ ev'.ok
          THEN GetClientCount' = GetClientCount + 1
          ELSE IF ev' # ev /\ ev'.id \in Peers
                    /\ (\/ ev'.op = "DropClient"
                        \/ ev'.op = "HandleClient" /\ ev'.n <= 0)
          THEN GetClientCount' = GetClientCount - 1
          ELSE IF ev' # ev /\ ev'.op = "Destroy"
          THEN GetClientCount' = 0
          ELSE /\ GetClientCount' = GetClientCount
               /\ (ev' # ev /\ ev'.op = "GetClientCount") =>
                     ev'.n = GetClientCount
         ]_vars

\* Two peers are accepted, neither has sent anything, and the count is 2.
C37_Witness ==
    /\ ev.op = "GetClientCount"
    /\ ev.n = 2
    /\ sock \in clients
    /\ clientBuffers = EmptyMap

\* C38: an endpoint is re-usable after Destroy.  The Create that follows
\* Destroy on a TCP server leaves what the first Create on the constructed
\* endpoint leaves: the listener thread started, the stop flag raised, an
\* empty client registry, an empty queue, no failed-send counters and an
\* empty descriptor set; and the listener thread, once started, begins with
\* the listening socket as the only member of the set, registry and queue
\* empty, from where it accepts and queues peers.
C38_ReusableAfterDestroy ==
    /\ [][(ev' # ev /\ ev.op \in {"construct", "Destroy"}
               /\ ev'.op = "Create" /\ ev'.ok) =>
             /\ listenerThread' = "entry"
             /\ continueListening'
             /\ sock' \in DOMAIN open' /\ open'[sock'] = "listening"
             /\ clients' = {}
             /\ readSocks' = {}
             /\ clientBuffers' = EmptyMap
             /\ clientRcvQueue' = <<>>
             /\ failedSendCount' = EmptyMap
         ]_vars
    /\ [](ev.op = "ListenThreadEntry" =>
             /\ listenerThread = "top"
             /\ clients = {sock}
             /\ maxSock = sock
             /\ clientBuffers = EmptyMap
             /\ clientRcvQueue = <<>>)

\* The listener thread of a re-created endpoint has started: a connection
\* of the endpoint's earlier life is still open.
C38_Witness ==
    /\ ev.op = "ListenThreadEntry"
    /\ Connected # {}
    /\ clients = {sock}

\* ---------------------------------------------- AccessManager under threads
\* The steps of one thread inside a call, and the destruction of its helper.
Proceed(t) ==
    \/ LockShared(t) \/ Find(t) \/ UpgraderUnlockShared(t) \/ Lock(t)
    \/ Recheck(t) \/ UpgraderUnlock(t) \/ TryAccessReturn(t)
    \/ Wait(t) \/ WaitOnReturn(t)
    \/ Notify(t) \/ Erase(t) \/ NotifyReturn(t)

\* Threads calling TryAccess and WaitOn with any keys, at any moments; a thread
\* whose TryAccess returned true holds an AccessHelper until it destroys it.
NextAccess ==
    \/ \E t \in Threads, key \in Keys : TryAccess(t, key)
    \/ \E t \in Threads, key \in Keys : WaitOn(t, key)
    \/ \E t \in Threads : SpuriousWake(t)
    \/ \E t \in Threads : Proceed(t)

SpecAccess == Init /\ [][NextAccess]_vars

\* Every thread that can take its next step takes it in the end, and every
\* helper is destroyed in the end; the calls started are finitely many.
SpecAccessFair == SpecAccess /\ \A t \in Threads : WF_vars(Proceed(t))

\* The threads that have been granted the key and have not yet erased it: the
\* ones holding an AccessHelper for it (until Notify has erased the key) or about
\* to return true from TryAccess.
Holders(key) ==
    {t \in Threads :
        \/ threads[t].helper = key /\ ~At(t, "Notify", "return")
        \/ threads[t].op = "TryAccess" /\ threads[t].key = key /\ threads[t].ret}

\* C39: the AccessManager grants a key to at most one thread at a time.  With
\* threads calling TryAccess in any interleaving: of the calls for one key, at
\* most one has returned true since the key was last erased by Notify, and at
\* most one thread holds the key; the list never holds a key twice; the second
\* find is made by the one thread that holds listMutex exclusively; and a
\* TryAccess returns true exactly when that second find was made and found the
\* key absent.
C39_OneHolderPerKey ==
    /\ \A key \in Keys : /\ Cardinality(granted[key]) <= 1
                         /\ Cardinality(Holders(key)) <= 1
                         /\ Holders(key) # {} => ~Absent(key)
    /\ \A i, j \in 1..Len(list) : list[i] = list[j] => i = j
    /\ \A t \in Threads :
           threads[t].pc = "recheck" => /\ listMutex.exclusive = t
                                        /\ listMutex.shared = {}
    /\ amEv.op = "recheck" => /\ amEv.ret = (amEv.checked = "absent")
                              /\ amEv.ret => list[Len(list)] = amEv.key
    /\ amEv.op = "TryAccess" => amEv.ret = (amEv.checked = "absent")

\* A TryAccess returns false after it found the key absent under the shared
\* lock and present under the exclusive lock, another thread holding the key.
C39_Witness ==
    /\ amEv.op = "TryAccess" /\ ~amEv.ret /\ amEv.checked = "present"
    /\ \E t \in Threads : t # amEv.thread /\ threads[t].helper = amEv.key

\* A thread is at a statement that locks listMutex, and a thread holds it.
WantsMutex(t) == threads[t].pc \in {"lock_shared", "relock", "lock"}
HoldsMutex(t) == listMutex.exclusive = t \/ t \in listMutex.shared

\* C40: WaitOn(key) returns only when it has found the key absent from the
\* list, and the key is absent when it returns.  With every helper destroyed in
\* the end and finitely many calls started, every thread in WaitOn returns in
\* the end, whether it is blocked on the condition variable or not.  Threads
\* calling TryAccess, WaitOn and Notify never deadlock on listMutex: a thread
\* that holds the mutex does not wait for it, a thread blocked on the condition
\* variable does not hold it, whenever a thread waits for the mutex that
\* thread or a holder of the mutex can take its next step, and every thread
\* that waits for the mutex gets it, also between the shared unlock and the
\* exclusive lock of the upgrade and back.
C40_WaitOnReturnsWhenAbsent ==
    /\ [](\A t \in Threads : At(t, "WaitOn", "return") =>
              Absent(threads[t].key) /\ listMutex.exclusive = t)
    /\ [](amEv.op = "WaitOn" => Absent(amEv.key))
    /\ \A t \in Threads : threads[t].op = "WaitOn" ~> threads[t].op # "WaitOn"
    /\ [](\A t \in Threads :
              /\ ~(HoldsMutex(t) /\ WantsMutex(t))
              /\ t \in accessFinishedCondition => ~HoldsMutex(t)
              /\ WantsMutex(t) =>
                     \/ ENABLED Proceed(t)
                     \/ \E u \in Threads : HoldsMutex(u) /\ ENABLED Proceed(u))
    /\ \A t \in Threads : WantsMutex(t) ~> HoldsMutex(t)

\* A thread that was blocked in WaitOn while another held the key has been
\* woken by the holder's Notify and returns.
C40_Witness ==
    /\ amEv.op = "WaitOn" /\ amEv.checked = "woken"
    /\ amCalls.spurious = 0

====
